---- MODULE Spec2Model ----
(***************************************************************************)
(* Model of causallift.CausalLift (src/src/causallift/causal_lift.py).     *)
(*                                                                         *)
(* A session owns one table self.df tagged by partition (train / test).    *)
(* The constructor checks the inputs, fits the two outcome models and      *)
(* computes the treatment fractions; estimate_cate_by_2_models fills the   *)
(* CATE column; estimate_recommendation_impact ranks every partition by    *)
(* CATE, fills the Recommendation column, simulates both arms and          *)
(* aggregates them into estimated_effect_df.                               *)
(*                                                                         *)
(* Numbers.  Probabilities and CATE values are integers in percent         *)
(* (80 = 0.8).  A fraction is a record [n, d] meaning n / d with d > 0.    *)
(* A cell of a result table is [k, n, d] with k = "num" (n / d), "nan"     *)
(* (the undefined value of the table library) or "inf".                    *)
(***************************************************************************)
EXTENDS Integers, Sequences, FiniteSets, TLC

(***************************************************************************)
(* Bounds                                                                  *)
(***************************************************************************)
MaxTrain == 2          \* rows of the train partition of a session
MaxTest == 1           \* rows of the test partition of a session
MaxLen == 4            \* rows of a CATE series given to the policy alone

(***************************************************************************)
(* Small input sets                                                        *)
(***************************************************************************)
Feats == {0, 1}                       \* the value of the one feature column
Probs == {30, 80}                     \* predicted probabilities, in percent
CateVals == {0, 50}                   \* CATE values of a series, in percent
CateTie == {50}                       \* caller-supplied CATE values, percent
Parts == {"train", "test"}

Frac(n, d) == [n |-> n, d |-> d]

\* an optional argument: None or a float
None == [given |-> FALSE, n |-> 0, d |-> 1]
Some(n, d) == [given |-> TRUE, n |-> n, d |-> d]

FracArgs == {None, Some(0, 1), Some(1, 2)}
PolicyFracs == {Frac(0, 1), Frac(1, 4), Frac(1, 3), Frac(1, 2),
                Frac(2, 3), Frac(3, 4), Frac(1, 1)}

SeqsUpTo(S, lo, hi) == UNION {[1..k -> S] : k \in lo..hi}

RECURSIVE SumSeq(_)
SumSeq(s) == IF s = <<>> THEN 0 ELSE Head(s) + SumSeq(Tail(s))

FracLe(a, b) == a.n * b.d <= b.n * a.d
FracEq(a, b) == a.n * b.d = b.n * a.d

(***************************************************************************)
(* Python's  a or b  on an optional float: None and 0.0 are both falsy.    *)
(***************************************************************************)
PyOr(arg, stored) ==
    IF arg.given /\ arg.n # 0 THEN Frac(arg.n, arg.d) ELSE stored

(***************************************************************************)
(* cate_series.rank(method='first', ascending=False, pct=True):            *)
(* RankFirst is the rank, 1 for the largest value, equal values ranked in  *)
(* the order they appear; the percentile is RankFirst / Len.               *)
(***************************************************************************)
\* method='min': equal values share the smallest rank of their group
RankMin(s, i) ==
    1 + Cardinality({j \in 1..Len(s) : s[j] > s[i]})

\* equal values ranked in the reverse of the order they appear
RankLast(s, i) ==
    1 + Cardinality({j \in 1..Len(s) : s[j] > s[i]})
      + Cardinality({j \in 1..Len(s) : j > i /\ s[j] = s[i]})

RankFirst(s, i) ==
    1 + Cardinality({j \in 1..Len(s) : s[j] > s[i]})
      + Cardinality({j \in 1..Len(s) : j < i /\ s[j] = s[i]})

\* np.where with the two outcomes exchanged
recommendation_inverted(cate_series, treatment_fraction) ==
    [i \in 1..Len(cate_series) |->
        IF RankFirst(cate_series, i) * treatment_fraction.d
              <= treatment_fraction.n * Len(cate_series)
        THEN 0 ELSE 1]

\* np.where(rank_series <= treatment_fraction, 1.0, 0.0)
recommendation(cate_series, treatment_fraction) ==
    [i \in 1..Len(cate_series) |->
        IF RankFirst(cate_series, i) * treatment_fraction.d
              <= treatment_fraction.n * Len(cate_series)
        THEN 1 ELSE 0]

\* recommendation_by_cate: each partition ranked on its own
recommendation_by_cate(cate, treatment_fractions) ==
    [p \in Parts |-> recommendation(cate[p], treatment_fractions[p])]

(***************************************************************************)
(* Cells of the result tables, with the arithmetic of the table library:   *)
(* an undefined operand makes the result undefined (0 * nan = nan), and a  *)
(* float division by zero gives nan (0 / 0) or inf.                        *)
(***************************************************************************)
Num(n, d) == [k |-> "num", n |-> n, d |-> d]
NaN == [k |-> "nan", n |-> 0, d |-> 1]
Inf == [k |-> "inf", n |-> 0, d |-> 1]

CellMul(count, a) ==
    IF a.k = "nan" THEN NaN
    ELSE IF a.k = "inf" THEN (IF count = 0 THEN NaN ELSE Inf)
    ELSE Num(count * a.n, a.d)

CellAdd(a, b) ==
    IF a.k = "nan" \/ b.k = "nan" THEN NaN
    ELSE IF a.k = "inf" \/ b.k = "inf" THEN Inf
    ELSE Num(a.n * b.d + b.n * a.d, a.d * b.d)

CellDivInt(a, count) ==
    IF a.k = "nan" THEN NaN
    ELSE IF a.k = "inf" THEN Inf
    ELSE IF count = 0 THEN (IF a.n = 0 THEN NaN ELSE Inf)
    ELSE Num(a.n, a.d * count)

CellDiv(a, b) ==
    IF a.k = "nan" \/ b.k = "nan" THEN NaN
    ELSE IF a.k = "inf" THEN (IF b.k = "inf" THEN NaN ELSE Inf)
    ELSE IF b.k = "inf" THEN Num(0, 1)
    ELSE IF b.n = 0 THEN (IF a.n = 0 THEN NaN ELSE Inf)
    ELSE Num(a.n * b.d, a.d * b.n)

CellLe(a, b) == a.k = "num" /\ b.k = "num" /\ a.n * b.d <= b.n * a.d

(***************************************************************************)
(* Collaborators (package causallift.nodes), which the session calls.       *)
(***************************************************************************)
\* a fitted model maps the features of a row to a probability
predict_proba(model, rows) == [i \in 1..Len(rows) |-> model[rows[i].x]]

\* treatment_fractions_: the mean of the treatment column, per partition
treatment_fractions_(d) ==
    [p \in Parts |->
        Frac(Cardinality({i \in 1..Len(d[p]) : d[p][i].t = 1}), Len(d[p]))]

\* the mean of column over the positions in I: undefined when I is empty
MeanOver(I, column, scale) ==
    IF I = {} THEN NaN
    ELSE Num(SumSeq([k \in 1..Cardinality(I) |->
                 column[CHOOSE i \in I : Cardinality({j \in I : j < i}) = k - 1]]),
             scale * Cardinality(I))

\* simulate_recommendation of the arm with treatment value arm and model
simulate_recommendation(arm, d, r, model) ==
    [p \in Parts |->
        LET chosen == {i \in 1..Len(d[p]) : d[p][i].t = arm}
            recommended == {i \in 1..Len(d[p]) : r[p][i] = arm}
            outcome == [i \in 1..Len(d[p]) |-> d[p][i].y]
            predicted == predict_proba(model, d[p])
        IN  [n_chosen |-> Cardinality(chosen),
             observed |-> MeanOver(chosen, outcome, 1),
             n_recommended |-> Cardinality(recommended),
             predicted |-> MeanOver(recommended, predicted, 100)]]

(***************************************************************************)
(* estimate_cate_by_2_models: treated model minus untreated model, both    *)
(* scoring every row of self.df.                                           *)
(***************************************************************************)
\* the two models exchanged in the difference
cate_by_2_models_swapped(d, mt, mu) ==
    [p \in Parts |->
        [i \in 1..Len(d[p]) |->
            predict_proba(mu, d[p])[i] - predict_proba(mt, d[p])[i]]]

cate_by_2_models(d, mt, mu) ==
    [p \in Parts |->
        [i \in 1..Len(d[p]) |->
            predict_proba(mt, d[p])[i] - predict_proba(mu, d[p])[i]]]

(***************************************************************************)
(* The aggregation at the end of estimate_recommendation_impact.           *)
(***************************************************************************)
WeightedRate(n1, r1, n2, r2) ==
    CellDivInt(CellAdd(CellMul(n1, r1), CellMul(n2, r2)), n1 + n2)

estimated_effect(tdf, udf) ==
    [p \in Parts |->
        LET observed == WeightedRate(tdf[p].n_chosen, tdf[p].observed,
                                     udf[p].n_chosen, udf[p].observed)
            predicted == WeightedRate(tdf[p].n_recommended, tdf[p].predicted,
                                      udf[p].n_recommended, udf[p].predicted)
        IN  [samples |-> tdf[p].n_chosen + udf[p].n_chosen,
             observed |-> observed,
             predicted |-> predicted,
             improvement |-> CellDiv(predicted, observed)]]

(***************************************************************************)
(* Input tables.  A table has its column names, in order, and its rows;    *)
(* isdf says whether the object is a pd.DataFrame at all.                  *)
(***************************************************************************)
Row == [x : Feats, t : {0, 1}, y : {0, 1}]
RowSmall == {[x |-> 0, t |-> 1, y |-> 1], [x |-> 1, t |-> 0, y |-> 0]}

ColsA == <<"x", "Treatment", "Outcome">>
ColsB == <<"Treatment", "Outcome", "x">>
ColsC == <<"x", "Treatment", "Outcome", "Propensity">>
ColsD == <<"x", "Treatment">>
ColVariants == {ColsA, ColsB, ColsC, ColsD}

Range(s) == {s[i] : i \in DOMAIN s}

Table(isdf, cols, rows) == [isdf |-> isdf, cols |-> cols, rows |-> rows]

Models == [Feats -> Probs]
NoModel == [v \in Feats |-> 0]

\* the defaults of the constructor
enable_ipw == TRUE
col_propensity == "Propensity"

NoDf == [p \in Parts |-> <<>>]
NoFractions == [p \in Parts |-> Frac(0, 1)]
NoArm == [p \in Parts |->
            [n_chosen |-> 0, observed |-> NaN,
             n_recommended |-> 0, predicted |-> NaN]]
NoEffect == [p \in Parts |->
               [samples |-> 0, observed |-> NaN,
                predicted |-> NaN, improvement |-> NaN]]
NoCate == [given |-> FALSE, vals |-> NoDf]
NoArgs == [cate |-> NoCate, tf_train |-> None, tf_test |-> None]

VARIABLES
    train_in, test_in,          \* the caller's train_df and test_df
    fit_out,                    \* what the grid searches return on that data
    phase,                      \* "new", "ready" or "failed"
    raised,                     \* the exception of the last call, "" if none
    fitted,                     \* the models fitted so far
    df,                         \* self.df: the rows of each partition
    model_treated, model_untreated,
    treatment_fractions,        \* self.treatment_fractions
    treatment_fraction_compat,  \* self.treatment_fraction_train / _test
    has_cate, cate,             \* the CATE column of self.df
    has_rec, rec,               \* the Recommendation column of self.df
    treated_df, untreated_df,   \* self.treated_df, self.untreated_df
    estimated_effect_df,        \* self.estimated_effect_df, the return value
    last_op, last_args,         \* the last call on the session
    repeated,                   \* the last call repeated the one before it
    p_series, p_frac, p_rec,    \* recommendation(cate_series, fraction)
    p_prev_frac, p_prev_rec, p_calls

session == <<train_in, test_in, fit_out, phase, raised, fitted, df,
             model_treated, model_untreated, treatment_fractions,
             treatment_fraction_compat, has_cate, cate, has_rec, rec,
             treated_df, untreated_df, estimated_effect_df,
             last_op, last_args, repeated>>
policy == <<p_series, p_frac, p_rec, p_prev_frac, p_prev_rec, p_calls>>
vars == <<session, policy>>

SessionIdle ==
    /\ phase = "new"
    /\ raised = ""
    /\ fitted = {}
    /\ df = NoDf
    /\ model_treated = NoModel
    /\ model_untreated = NoModel
    /\ treatment_fractions = NoFractions
    /\ treatment_fraction_compat = NoFractions
    /\ has_cate = FALSE
    /\ cate = NoDf
    /\ has_rec = FALSE
    /\ rec = NoDf
    /\ treated_df = NoArm
    /\ untreated_df = NoArm
    /\ estimated_effect_df = NoEffect
    /\ last_op = "none"
    /\ last_args = NoArgs
    /\ repeated = FALSE

PolicyIdle ==
    /\ p_series = <<>>
    /\ p_frac = Frac(0, 1)
    /\ p_rec = <<>>
    /\ p_prev_frac = Frac(0, 1)
    /\ p_prev_rec = <<>>
    /\ p_calls = 0

(***************************************************************************)
(* CausalLift.__init__                                                     *)
(***************************************************************************)
\* the column lists compared as lists
SameColumnsOrdered(a, b) == a = b

\* assert set(train_df.columns) == set(test_df.columns)
SameColumns(a, b) == Range(a) = Range(b)

ArmRows(d, arm) == {<<p, i>> \in Parts \X (1..(MaxTrain + MaxTest + 2)) :
                       i <= Len(d[p]) /\ d[p][i].t = arm}

CausalLift__init__ ==
    /\ phase = "new"
    /\ LET d == [p \in Parts |->
                    IF p = "train" THEN train_in.rows ELSE test_in.rows]
           asserts == /\ train_in.isdf
                      /\ test_in.isdf
                      /\ SameColumns(train_in.cols, test_in.cols)
           propensity == enable_ipw /\ col_propensity \notin Range(train_in.cols)
           fits == /\ "Outcome" \in Range(train_in.cols)
                   /\ "Treatment" \in Range(train_in.cols)
                   /\ ArmRows(d, 1) # {}
                   /\ ArmRows(d, 0) # {}
       IN  IF ~asserts
           THEN /\ phase' = "failed"
                /\ raised' = "AssertionError"
                /\ UNCHANGED <<fitted, df, model_treated, model_untreated,
                               treatment_fractions, treatment_fraction_compat>>
           ELSE IF ~fits
           THEN /\ phase' = "failed"
                /\ raised' = "FitError"
                /\ UNCHANGED <<fitted, df, model_treated, model_untreated,
                               treatment_fractions, treatment_fraction_compat>>
           ELSE /\ phase' = "ready"
                /\ raised' = ""
                /\ fitted' = (IF propensity THEN {"propensity"} ELSE {})
                                \cup {"treated", "untreated"}
                /\ df' = d
                /\ model_treated' = fit_out[1]
                /\ model_untreated' = fit_out[2]
                /\ treatment_fractions' = treatment_fractions_(d)
                /\ treatment_fraction_compat' = treatment_fractions_(d)
    /\ last_op' = "construct"
    /\ UNCHANGED <<train_in, test_in, fit_out, has_cate, cate, has_rec, rec,
                   treated_df, untreated_df, estimated_effect_df,
                   last_args, repeated>>
    /\ UNCHANGED policy

(***************************************************************************)
(* CausalLift.estimate_cate_by_2_models                                    *)
(***************************************************************************)
estimate_cate_by_2_models ==
    /\ phase = "ready"
    /\ cate' = cate_by_2_models(df, model_treated, model_untreated)
    /\ has_cate' = TRUE
    /\ raised' = ""
    /\ last_op' = "estimate_cate"
    /\ last_args' = NoArgs
    /\ repeated' = FALSE
    /\ UNCHANGED <<train_in, test_in, fit_out, phase, fitted, df,
                   model_treated, model_untreated, treatment_fractions,
                   treatment_fraction_compat, has_rec, rec,
                   treated_df, untreated_df, estimated_effect_df>>
    /\ UNCHANGED policy

(***************************************************************************)
(* CausalLift.estimate_recommendation_impact                               *)
(***************************************************************************)
\* the values added to the column instead of replacing it
set_cate_column_added(column, values) ==
    [p \in Parts |->
        IF Len(column[p]) = Len(values[p])
        THEN [i \in 1..Len(values[p]) |-> column[p][i] + values[p][i]]
        ELSE values[p]]

\* self.df.loc[:, self.args.col_cate] = cate_estimated.values
set_cate_column(column, values) == values

\* the values a caller can pass as cate_estimated: one per row of self.df
CateArgs(V) ==
    {NoCate} \cup
    {[given |-> TRUE, vals |-> [p \in Parts |-> IF p = "train" THEN a ELSE b]] :
        a \in [1..Len(df["train"]) -> V], b \in [1..Len(df["test"]) -> V]}

estimate_recommendation_impact(cate_estimated, treatment_fraction_train, treatment_fraction_test) ==
    /\ phase = "ready"
    /\ LET newcate == IF cate_estimated.given
                      THEN set_cate_column(cate, cate_estimated.vals)
                      ELSE cate
           tf == [p \in Parts |->
                    IF p = "train"
                    THEN PyOr(treatment_fraction_train, treatment_fractions[p])
                    ELSE PyOr(treatment_fraction_test, treatment_fractions[p])]
           r == recommendation_by_cate(newcate, tf)
           tdf == simulate_recommendation(1, df, r, model_treated)
           udf == simulate_recommendation(0, df, r, model_untreated)
           args == [cate |-> cate_estimated,
                    tf_train |-> treatment_fraction_train,
                    tf_test |-> treatment_fraction_test]
       IN  /\ cate' = newcate
           /\ has_cate' = (has_cate \/ cate_estimated.given)
           /\ treatment_fractions' = tf
           /\ last_args' = args
           /\ IF has_cate \/ cate_estimated.given
              THEN /\ rec' = r
                   /\ has_rec' = TRUE
                   /\ treated_df' = tdf
                   /\ untreated_df' = udf
                   /\ estimated_effect_df' = estimated_effect(tdf, udf)
                   /\ raised' = ""
                   /\ last_op' = "impact"
                   /\ repeated' = (last_op = "impact" /\ last_args = args)
              ELSE \* df[args.col_cate] raises: there is no CATE column yet
                   /\ raised' = "KeyError"
                   /\ last_op' = "impact_raised"
                   /\ repeated' = FALSE
                   /\ UNCHANGED <<rec, has_rec, treated_df, untreated_df,
                                  estimated_effect_df>>
    /\ UNCHANGED <<train_in, test_in, fit_out, phase, fitted, df,
                   model_treated, model_untreated, treatment_fraction_compat>>
    /\ UNCHANGED policy

(***************************************************************************)
(* The policy alone: recommendation applied to a series and a fraction.    *)
(***************************************************************************)
Recommend(f) ==
    /\ p_series # <<>>
    /\ p_prev_frac' = p_frac
    /\ p_prev_rec' = p_rec
    /\ p_frac' = f
    /\ p_rec' = recommendation(p_series, f)
    /\ p_calls' = IF p_calls < 2 THEN p_calls + 1 ELSE 2
    /\ UNCHANGED p_series
    /\ UNCHANGED session

(***************************************************************************)
(* Specifications                                                          *)
(***************************************************************************)
SampleTrain == <<[x |-> 0, t |-> 1, y |-> 1], [x |-> 1, t |-> 0, y |-> 0]>>
SampleTest == <<[x |-> 1, t |-> 1, y |-> 0]>>

\* every table over the rows R, and the sample tables under every pair of
\* column lists and object kinds
Inputs(R) ==
    {<<Table(TRUE, ColsA, a), Table(TRUE, ColsA, b)>> :
        a \in SeqsUpTo(R, 1, MaxTrain), b \in SeqsUpTo(R, 1, MaxTest)}
    \cup
    {<<Table(k[1], c[1], SampleTrain), Table(k[2], c[2], SampleTest)>> :
        k \in BOOLEAN \X BOOLEAN, c \in ColVariants \X ColVariants}

InitSession(R, F) ==
    /\ \E in \in Inputs(R) : train_in = in[1] /\ test_in = in[2]
    /\ fit_out \in F
    /\ SessionIdle
    /\ PolicyIdle

\* few tables, every argument of estimate_recommendation_impact
Init == InitSession(RowSmall, {<<[v \in Feats |-> IF v = 0 THEN 80 ELSE 30],
                                [v \in Feats |-> 30]>>})

Next ==
    \/ CausalLift__init__
    \/ estimate_cate_by_2_models
    \/ \E c \in CateArgs(CateTie), ft \in FracArgs, fe \in FracArgs :
          estimate_recommendation_impact(c, ft, fe)

Spec == Init /\ [][Next]_vars

\* every table, two pairs of models, the default arguments
InitData == InitSession(Row, {f \in Models \X Models :
                                 f[1][0] = 80 /\ f[1][1] = 30 /\ f[2][0] = 30})

NextData ==
    \/ CausalLift__init__
    \/ estimate_cate_by_2_models
    \/ estimate_recommendation_impact(NoCate, None, None)

SpecData == InitData /\ [][NextData]_vars

InitPolicy ==
    /\ p_series \in SeqsUpTo(CateVals \cup {-50}, 1, MaxLen)
    /\ p_frac = Frac(0, 1)
    /\ p_rec = <<>>
    /\ p_prev_frac = Frac(0, 1)
    /\ p_prev_rec = <<>>
    /\ p_calls = 0
    /\ train_in = Table(TRUE, ColsA, <<>>)
    /\ test_in = Table(TRUE, ColsA, <<>>)
    /\ fit_out = <<NoModel, NoModel>>
    /\ SessionIdle

NextPolicy == \E f \in PolicyFracs : Recommend(f)

SpecPolicy == InitPolicy /\ [][NextPolicy]_vars

(***************************************************************************)
(* Properties                                                              *)
(***************************************************************************)
Count(r) == Cardinality({i \in DOMAIN r : r[i] = 1})
HasTies(s) == \E i, j \in DOMAIN s : i < j /\ s[i] = s[j]

\* Python's round(a / b) for a >= 0, b > 0: halves go to the even integer
RoundHalfEven(a, b) ==
    LET q == a \div b
        m == a % b
    IN  IF 2 * m < b THEN q
        ELSE IF 2 * m > b THEN q + 1
        ELSE IF q % 2 = 0 THEN q ELSE q + 1

\* the indices of s sorted by value, largest first, by a stable insertion sort
RECURSIVE InsertDesc(_, _, _)
InsertDesc(s, sorted, i) ==
    IF sorted = <<>> THEN <<i>>
    ELSE IF s[Head(sorted)] >= s[i]
         THEN <<Head(sorted)>> \o InsertDesc(s, Tail(sorted), i)
         ELSE <<i>> \o sorted

RECURSIVE SortedDesc(_, _)
SortedDesc(s, n) ==
    IF n = 0 THEN <<>> ELSE InsertDesc(s, SortedDesc(s, n - 1), n)

StablePos(s, i) ==
    CHOOSE k \in 1..Len(s) : SortedDesc(s, Len(s))[k] = i

\* C1: after estimate_cate_by_2_models the CATE of every row of the combined
\* table is the treated model's probability for the row minus the untreated
\* model's, whatever the row's own treatment: rows with the same features
\* have the same CATE.
C1_CateIsModelDifference ==
    last_op = "estimate_cate" =>
        \A p \in Parts : \A i \in 1..Len(df[p]) :
            /\ Len(cate[p]) = Len(df[p])
            /\ cate[p][i] = model_treated[df[p][i].x] - model_untreated[df[p][i].x]
            /\ \A q \in Parts : \A j \in 1..Len(df[q]) :
                  df[q][j].x = df[p][i].x => cate[q][j] = cate[p][i]

\* a treated and an untreated row with the same features, scored apart by
\* the two models
C1_Witness ==
    /\ last_op = "estimate_cate"
    /\ \E i, j \in 1..Len(df["train"]) :
          /\ df["train"][i].x = df["train"][j].x
          /\ df["train"][i].t = 1
          /\ df["train"][j].t = 0
          /\ cate["train"][i] # 0
    /\ \E i \in 1..Len(df["train"]) : cate["test"][1] # cate["train"][i]

\* C2: the number of rows the policy recommends in a partition of N rows
\* with fraction f is round(f * N) within one, whatever the CATE values.
C2_Budget ==
    p_calls >= 1 =>
        Count(p_rec) - RoundHalfEven(p_frac.n * Len(p_series), p_frac.d)
            \in {-1, 0, 1}

\* tied CATE values at a fraction where the count is not round(f * N)
C2_Witness ==
    /\ p_calls >= 1
    /\ HasTies(p_series)
    /\ Count(p_rec) >= 1
    /\ Count(p_rec) # RoundHalfEven(p_frac.n * Len(p_series), p_frac.d)

\* C3: for one CATE series and fractions f1 <= f2, every row recommended at
\* f1 is recommended at f2, so the count at f2 is not less.
C3_Monotone ==
    (p_calls = 2 /\ FracLe(p_prev_frac, p_frac)) =>
        /\ \A i \in 1..Len(p_series) : p_prev_rec[i] = 1 => p_rec[i] = 1
        /\ Count(p_prev_rec) <= Count(p_rec)

C3_Witness ==
    /\ p_calls = 2
    /\ FracLe(p_prev_frac, p_frac)
    /\ 0 < Count(p_prev_rec)
    /\ Count(p_prev_rec) < Count(p_rec)
    /\ Count(p_rec) < Len(p_series)

\* C7: a row is recommended iff its position in the stable descending order
\* of the partition, divided by the partition size, is at most the fraction;
\* four rows of CATE 0.5 at fraction 0.5 recommend the first two rows.
C7_StableRankPolicy ==
    p_calls >= 1 =>
        /\ \A i \in 1..Len(p_series) :
              p_rec[i] = 1 <=>
                  StablePos(p_series, i) * p_frac.d <= p_frac.n * Len(p_series)
        /\ (p_series = <<50, 50, 50, 50>> /\ p_frac = Frac(1, 2))
              => p_rec = <<1, 1, 0, 0>>

C7_Witness ==
    /\ p_calls >= 1
    /\ p_series = <<50, 50, 50, 50>>
    /\ p_frac = Frac(1, 2)
    /\ p_rec = <<1, 1, 0, 0>>

\* C6: a session built from tables whose column sets differ fails with the
\* assertion error before anything is fitted or stored; tables with the same
\* column set in another order pass the assertion.
C6_SchemaMismatchFailsAtBoundary ==
    phase # "new" =>
        /\ Range(train_in.cols) # Range(test_in.cols) =>
              /\ phase = "failed"
              /\ raised = "AssertionError"
              /\ fitted = {}
              /\ df = NoDf
              /\ model_treated = NoModel
              /\ model_untreated = NoModel
              /\ treatment_fractions = NoFractions
              /\ treatment_fraction_compat = NoFractions
        /\ (/\ Range(train_in.cols) = Range(test_in.cols)
            /\ train_in.isdf
            /\ test_in.isdf) => raised # "AssertionError"

C6_Witness ==
    /\ phase = "failed"
    /\ raised = "AssertionError"
    /\ train_in.isdf
    /\ test_in.isdf
    /\ Range(train_in.cols) # Range(test_in.cols)
    /\ fitted = {}

\* the same columns in another order: the session is built
C6_ReorderedAccepted ==
    /\ phase = "ready"
    /\ train_in.cols # test_in.cols
    /\ fitted = {"propensity", "treated", "untreated"}

\* C4: a call of estimate_recommendation_impact that repeats the explicit
\* arguments of the call before it returns the same table and leaves the
\* CATE column, the Recommendation column and the stored fractions as the
\* first call left them.
C4_Idempotent ==
    [][(/\ last_op = "impact"
        /\ last_op' = "impact"
        /\ last_args' = last_args
        /\ last_args.cate.given
        /\ last_args.tf_train.given
        /\ last_args.tf_test.given)
       => /\ estimated_effect_df' = estimated_effect_df
          /\ treated_df' = treated_df
          /\ untreated_df' = untreated_df
          /\ cate' = cate
          /\ rec' = rec
          /\ treatment_fractions' = treatment_fractions]_vars

C4_Witness ==
    /\ repeated
    /\ last_op = "impact"
    /\ last_args.cate.given
    /\ last_args.tf_train.given
    /\ last_args.tf_test.given
    /\ last_args.tf_train.n # 0
    /\ Count(rec["train"]) >= 1

\* o = (n1 * r1 + n2 * r2) / (n1 + n2), all three rates defined
IsWeightedAverage(o, n1, r1, n2, r2) ==
    /\ o.k = "num" /\ r1.k = "num" /\ r2.k = "num"
    /\ o.n * r1.d * r2.d * (n1 + n2) = o.d * (n1 * r1.n * r2.d + n2 * r2.n * r1.d)

ArmTable(arm) == IF arm = 1 THEN treated_df ELSE untreated_df

\* C5: in every row of the returned table '# samples' is the sum of the two
\* arms' sample counts, and the overall observed rate is the weighted
\* average of the two arms' observed rates, between their minimum and maximum.
C5_Aggregation ==
    last_op = "impact" =>
        \A p \in Parts :
            LET e == estimated_effect_df[p]
                a == treated_df[p]
                b == untreated_df[p]
            IN  /\ e.samples = a.n_chosen + b.n_chosen
                /\ IsWeightedAverage(e.observed, a.n_chosen, a.observed,
                                                 b.n_chosen, b.observed)
                /\ \/ CellLe(a.observed, e.observed) /\ CellLe(e.observed, b.observed)
                   \/ CellLe(b.observed, e.observed) /\ CellLe(e.observed, a.observed)

\* C8: when an arm has no row in a partition the call does not raise, the
\* arm reports count 0 and an undefined rate, and the overall observed rate
\* of the partition is the rate of the other arm.
C8_EmptyArmNotPropagated ==
    last_op = "impact" =>
        \A p \in Parts : \A arm \in {0, 1} :
            ArmTable(arm)[p].n_chosen = 0 =>
                /\ raised = ""
                /\ ArmTable(arm)[p].observed = NaN
                /\ estimated_effect_df[p].observed.k = "num"
                /\ CellLe(estimated_effect_df[p].observed, ArmTable(1 - arm)[p].observed)
                /\ CellLe(ArmTable(1 - arm)[p].observed, estimated_effect_df[p].observed)

Supplied(p) == IF p = "train" THEN last_args.tf_train ELSE last_args.tf_test

\* C9: a call with an explicit treatment fraction in [0, 1], 0 included,
\* recommends in that partition by exactly the supplied fraction.
C9_OverrideUsed ==
    last_op = "impact" =>
        \A p \in Parts :
            Supplied(p).given =>
                rec[p] = recommendation(cate[p], Frac(Supplied(p).n, Supplied(p).d))

\* C10: a call with the fraction left at None recommends in that partition by
\* the treated fraction of the partition computed at construction, whatever
\* the earlier calls were given.
C10_NoneUsesDataFraction ==
    last_op = "impact" =>
        \A p \in Parts :
            ~Supplied(p).given =>
                rec[p] = recommendation(cate[p], treatment_fractions_(df)[p])

====
